---- MODULE Spec2Model ----
(***************************************************************************)
(* The three FMOD Studio HTML5 example scripts (simple_event.js,           *)
(* music_callbacks.js and the ambience page script part_000) as one state  *)
(* machine.  A page loads exactly one of the scripts.  Every handler       *)
(* (prerun, main, playEvent, toggleProgression, resumeAudio,               *)
(* updateApplication, markerCallback) is one action: its body is a list of *)
(* steps taken from the source, run against the results the engine        *)
(* returns, and CHECK_RESULT cuts the run short at the first result that   *)
(* is not FMOD.OK.  The events a handler performed are kept in opTrace.    *)
(***************************************************************************)
EXTENDS Integers, Sequences, FiniteSets, TLC

\* Number of distinct result codes other than FMOD.OK the engine may return.
MaxErr == 2

\* Number of event instances the engine hands out before playEvent(0) is
\* no longer explored.
MaxInstances == 4

\* The count of completed mixer suspend/resume pairs is kept up to this value.
MaxResets == 2

\* FMOD.OK, the success sentinel every result is compared with.
FMOD_OK == 0

Results == 0..MaxErr

Scripts == {"simple_event", "music_callbacks", "part_000"}

VARIABLES
    script,                  \* which of the three scripts the page loaded
    phase,                   \* "loaded", "preRun", "running", "aborted"
    preloaded,               \* files registered with FS_createPreloadedFile
    gSystem,                 \* TRUE once the Studio system handle is stored
    gSystemCore,             \* TRUE once the core system handle is stored
    explosionDescription,    \* TRUE once explosionDescription.val is set
    loopingAmbienceInstance, \* instance id in loopingAmbienceInstance.val, 0 for {}
    cancelInstance,          \* instance id in cancelInstance.val, 0 for {}
    gEventInstance,          \* instance id stored in gEventInstance, 0 for {}
    gProgression,            \* 0 or 1
    gProgressionID,          \* TRUE once the parameter id is stored
    gAudioResumed,           \* part_000 only
    buttons,                 \* ids of the buttons whose disabled flag is false
    timerOn,                 \* window.setInterval(updateApplication, 20) was called
    listenerOn,              \* resumeAudio is registered as a click/touchend listener
    instances,               \* the engine's event instances, by id
    callbackMask,            \* callback types registered by a successful setCallback
    loadedBanks,             \* paths of the banks a successful loadBankFile loaded
    mixerResets,             \* mixerSuspend/mixerResume pairs that both returned FMOD.OK
    lastOp,                  \* the handler that ran last
    opTrace,                 \* the events that handler performed, in order
    prePlaying,              \* ids of the instances playing when that handler started
    priorFailure             \* some handler before the last one had a failed call

vars == <<script, phase, preloaded, gSystem, gSystemCore, explosionDescription,
          loopingAmbienceInstance, cancelInstance, gEventInstance, gProgression,
          gProgressionID, gAudioResumed, buttons, timerOn, listenerOn, instances,
          callbackMask, loadedBanks, mixerResets,
          lastOp, opTrace, prePlaying, priorFailure>>

-----------------------------------------------------------------------------
\* Steps of a handler body.

Call(obj, fn, args, h, out) ==
    [kind |-> "call", obj |-> obj, fn |-> fn, args |-> args, h |-> h, out |-> out]

Assign(v, val) == [kind |-> "assign", var |-> v, val |-> val]

Dom(id) == [kind |-> "dom", id |-> id]

Enable(id) == [kind |-> "enable", id |-> id]

Enter(fn) == [kind |-> "enter", fn |-> fn]

Return(val) == [kind |-> "return", val |-> val]

-----------------------------------------------------------------------------
\* CHECK_RESULT and the text it builds.

ErrorString(result) == [ErrorString |-> result]

CHECK_RESULT_NoThrow(result) ==
    IF result # FMOD_OK
    THEN LET msg == [pre |-> "Error!!! '", str |-> ErrorString(result), post |-> "'"]
         IN  [alerts |-> <<msg>>, thrown |-> <<>>]
    ELSE [alerts |-> <<>>, thrown |-> <<>>]

CHECK_RESULT_Inverted(result) ==
    IF result = FMOD_OK
    THEN LET msg == [pre |-> "Error!!! '", str |-> ErrorString(result), post |-> "'"]
         IN  [alerts |-> <<msg>>, thrown |-> <<msg>>]
    ELSE [alerts |-> <<>>, thrown |-> <<>>]

CHECK_RESULT(result) ==
    IF result # FMOD_OK
    THEN LET msg == [pre |-> "Error!!! '", str |-> ErrorString(result), post |-> "'"]
         IN  [alerts |-> <<msg>>, thrown |-> <<msg>>]
    ELSE [alerts |-> <<>>, thrown |-> <<>>]

Alert(msg) == [kind |-> "alert", msg |-> msg]

Throw(msg) == [kind |-> "throw", msg |-> msg]

RECURSIVE MapAlert(_)
MapAlert(msgs) ==
    IF msgs = <<>> THEN <<>> ELSE <<Alert(Head(msgs))>> \o MapAlert(Tail(msgs))

RECURSIVE MapThrow(_)
MapThrow(msgs) ==
    IF msgs = <<>> THEN <<>> ELSE <<Throw(Head(msgs))>> \o MapThrow(Tail(msgs))

\* The call of step s with the result the engine gave it.
Evt(s, r) ==
    [kind |-> "call", obj |-> s.obj, fn |-> s.fn, args |-> s.args, h |-> s.h,
     out |-> s.out, res |-> r]

\* Runs the steps in order; rs[k] is the result of the k-th engine call.  Each
\* call's result goes through CHECK_RESULT, and a throw ends the handler.
RECURSIVE Exec(_, _, _)
Exec(steps, rs, k) ==
    IF steps = <<>> THEN <<>>
    ELSE LET s == Head(steps) IN
         IF s.kind = "call"
         THEN LET chk == CHECK_RESULT(rs[k + 1])
              IN  <<Evt(s, rs[k + 1])>> \o MapAlert(chk.alerts) \o MapThrow(chk.thrown)
                  \o (IF chk.thrown # <<>> THEN <<>> ELSE Exec(Tail(steps), rs, k + 1))
         ELSE <<s>> \o Exec(Tail(steps), rs, k)

RECURSIVE NumCalls(_)
NumCalls(steps) ==
    IF steps = <<>> THEN 0
    ELSE (IF Head(steps).kind = "call" THEN 1 ELSE 0) + NumCalls(Tail(steps))

\* The results the engine may give to n calls.  A call after the first failed
\* one is never made, so only the first failure is drawn.
ResultVectors(n) ==
    {[i \in 1..n |-> FMOD_OK]} \cup
    {[i \in 1..n |-> IF i = f THEN r ELSE FMOD_OK] : f \in 1..n, r \in 1..MaxErr}

-----------------------------------------------------------------------------
\* prerun: the files mounted before the engine starts.

fileName_NoStrings(s) ==
    CASE s = "simple_event"    -> <<"Master.bank", "SFX.bank">>
      [] s = "music_callbacks" -> <<"Master.bank", "Music.bank">>
      [] s = "part_000"        -> <<"Master.bank">>

fileName(s) ==
    CASE s = "simple_event"    -> <<"Master.bank", "Master.strings.bank", "SFX.bank">>
      [] s = "music_callbacks" -> <<"Master.bank", "Master.strings.bank", "Music.bank">>
      [] s = "part_000"        -> <<"Master.bank", "Master.strings.bank">>

folderName == "/"

Preload(folder, name) == [kind |-> "preload", folder |-> folder, name |-> name]

RECURSIVE PrerunLoop(_, _)
PrerunLoop(s, names) ==
    IF names = <<>> THEN <<>>
    ELSE (IF s = "part_000" THEN <<>> ELSE <<Dom("display_out2")>>)
         \o <<Preload(folderName, Head(names))>>
         \o PrerunLoop(s, Tail(names))

prerunSteps(s) == PrerunLoop(s, fileName(s))

-----------------------------------------------------------------------------
\* The FMOD object's constants.  A callback mask is the set of the bits that
\* are set; reading a property the object does not have gives undefined, and
\* undefined | x is x (ToInt32(undefined) = 0), the empty set of bits.

CallbackTypes ==
    {"STUDIO_EVENT_CALLBACK_TIMELINE_MARKER", "STUDIO_EVENT_CALLBACK_TIMELINE_BEAT",
     "STUDIO_EVENT_CALLBACK_SOUND_PLAYED", "STUDIO_EVENT_CALLBACK_SOUND_STOPPED"}

FMODBits(name) == IF name \in CallbackTypes THEN {name} ELSE {}

BitOr(a, b) == a \cup b

setCallbackMask ==
    BitOr(BitOr(BitOr(FMODBits("DSTUDIO_EVENT_CALLBACK_TIMELINE_MARKER"),
                      FMODBits("STUDIO_EVENT_CALLBACK_TIMELINE_BEAT")),
                FMODBits("STUDIO_EVENT_CALLBACK_SOUND_PLAYED")),
          FMODBits("STUDIO_EVENT_CALLBACK_SOUND_STOPPED"))

-----------------------------------------------------------------------------
\* loadBank and initApplication.

loadBank(name) ==
    <<Call("gSystem", "loadBankFile", <<"/", name, "STUDIO_LOAD_BANK_NORMAL">>, 0, "")>>

AmbienceEvent(s) == IF s = "part_000" THEN "event:/Music" ELSE "event:/Ambience/Country"

CancelEvent == "event:/UI/Cancel"

ExplosionEvent == "event:/Weapons/Explosion"

MusicEvent == "event:/Music/Level 01"

\* The bank names initApplication passes to loadBank.
bankNames(s) ==
    CASE s = "simple_event"    -> {"Master.bank", "Master.strings.bank", "SFX.bank"}
      [] s = "music_callbacks" -> {"Master.bank", "Master.strings.bank", "Music.bank"}
      [] s = "part_000"        -> {"Master.bank", "Master.strings.bank"}

initApplicationSteps_EnableFirst(s, base, prog) ==
    <<Enter("initApplication")>> \o
    CASE s = "simple_event" ->
            <<Enable("playEvent0"), Enable("playEvent1"),
              Enable("playEvent2"), Enable("playEvent3")>> \o
            loadBank("Master.bank") \o loadBank("Master.strings.bank") \o loadBank("SFX.bank") \o
            <<Call("gSystem", "getEvent", <<AmbienceEvent(s)>>, 0, ""),
              Call(AmbienceEvent(s), "createInstance", <<>>, base + 1, "loopingAmbienceInstance"),
              Call("gSystem", "getEvent", <<CancelEvent>>, 0, ""),
              Call(CancelEvent, "createInstance", <<>>, base + 2, "cancelInstance"),
              Call("gSystem", "getEvent", <<ExplosionEvent>>, 0, "explosionDescription"),
              Call(ExplosionEvent, "loadSampleData", <<>>, 0, "")>>
      [] s = "music_callbacks" ->
            <<Enable("toggleid")>> \o
            loadBank("Master.bank") \o loadBank("Master.strings.bank") \o loadBank("Music.bank") \o
            <<Call("gSystem", "getEvent", <<MusicEvent>>, 0, ""),
              Call(MusicEvent, "createInstance", <<>>, base + 1, ""),
              Assign("gEventInstance", base + 1),
              Call("gEventInstance", "setCallback", <<"markerCallback", setCallbackMask>>,
                   base + 1, ""),
              Call("gEventInstance", "start", <<>>, base + 1, ""),
              Call(MusicEvent, "getParameterDescriptionByName", <<"Progression">>, 0, ""),
              Assign("gProgressionID", TRUE),
              Call("gEventInstance", "setParameterByID", <<"gProgressionID", prog, FALSE>>,
                   base + 1, "")>>
      [] s = "part_000" ->
            <<Enable("playEvent0"), Enable("playEvent1")>> \o
            loadBank("Master.bank") \o loadBank("Master.strings.bank") \o
            <<Call("gSystem", "getEvent", <<AmbienceEvent(s)>>, 0, ""),
              Call(AmbienceEvent(s), "createInstance", <<>>, base + 1, "loopingAmbienceInstance")>>

\* base is the number of instances the engine has handed out so far: the
\* next createInstance that succeeds returns instance base + 1.
initApplicationSteps(s, base, prog) ==
    <<Enter("initApplication")>> \o
    CASE s = "simple_event" ->
            loadBank("Master.bank") \o loadBank("Master.strings.bank") \o loadBank("SFX.bank") \o
            <<Call("gSystem", "getEvent", <<AmbienceEvent(s)>>, 0, ""),
              Call(AmbienceEvent(s), "createInstance", <<>>, base + 1, "loopingAmbienceInstance"),
              Call("gSystem", "getEvent", <<CancelEvent>>, 0, ""),
              Call(CancelEvent, "createInstance", <<>>, base + 2, "cancelInstance"),
              Call("gSystem", "getEvent", <<ExplosionEvent>>, 0, "explosionDescription"),
              Call(ExplosionEvent, "loadSampleData", <<>>, 0, ""),
              Enable("playEvent0"), Enable("playEvent1"),
              Enable("playEvent2"), Enable("playEvent3")>>
      [] s = "music_callbacks" ->
            loadBank("Master.bank") \o loadBank("Master.strings.bank") \o loadBank("Music.bank") \o
            <<Call("gSystem", "getEvent", <<MusicEvent>>, 0, ""),
              Call(MusicEvent, "createInstance", <<>>, base + 1, ""),
              Assign("gEventInstance", base + 1),
              Call("gEventInstance", "setCallback", <<"markerCallback", setCallbackMask>>,
                   base + 1, ""),
              Call("gEventInstance", "start", <<>>, base + 1, ""),
              Call(MusicEvent, "getParameterDescriptionByName", <<"Progression">>, 0, ""),
              Assign("gProgressionID", TRUE),
              Call("gEventInstance", "setParameterByID", <<"gProgressionID", prog, FALSE>>,
                   base + 1, ""),
              Enable("toggleid")>>
      [] s = "part_000" ->
            loadBank("Master.bank") \o loadBank("Master.strings.bank") \o
            <<Call("gSystem", "getEvent", <<AmbienceEvent(s)>>, 0, ""),
              Call(AmbienceEvent(s), "createInstance", <<>>, base + 1, "loopingAmbienceInstance"),
              Enable("playEvent0"), Enable("playEvent1")>>

-----------------------------------------------------------------------------
\* main.

Timer(fn, ms) == [kind |-> "timer", fn |-> fn, ms |-> ms]

Listen(target, ev, fn) == [kind |-> "listen", target |-> target, ev |-> ev, fn |-> fn]

setSampleRateSteps(s) ==
    IF s = "music_callbacks" THEN <<>>
    ELSE <<Call("gSystemCore", "getDriverInfo", <<"0">>, 0, ""),
           Call("gSystemCore", "setSoftwareFormat", <<"outval.val", "SPEAKERMODE_DEFAULT", "0">>, 0, "")>>

resumeAudioSetupSteps(s, ios) ==
    IF s # "part_000" THEN <<>>
    ELSE IF ios THEN <<Listen("window", "touchend", "resumeAudio")>>
    ELSE <<Listen("document", "click", "resumeAudio")>>

mainSteps_InitializeFirst(s, base, prog, ios) ==
    <<Call("FMOD", "Studio_System_Create", <<>>, 0, ""),
      Assign("gSystem", TRUE),
      Call("gSystem", "getCoreSystem", <<>>, 0, ""),
      Assign("gSystemCore", TRUE),
      Call("gSystem", "initialize", <<"1024", "STUDIO_INIT_NORMAL", "INIT_NORMAL">>, 0, ""),
      Call("gSystemCore", "setDSPBufferSize", <<"2048", "2">>, 0, "")>> \o
    setSampleRateSteps(s) \o
    initApplicationSteps(s, base, prog) \o
    resumeAudioSetupSteps(s, ios) \o
    <<Timer("updateApplication", 20), Return(FMOD_OK)>>

mainSteps_TimerFirst(s, base, prog, ios) ==
    <<Call("FMOD", "Studio_System_Create", <<>>, 0, ""),
      Assign("gSystem", TRUE),
      Call("gSystem", "getCoreSystem", <<>>, 0, ""),
      Assign("gSystemCore", TRUE),
      Call("gSystemCore", "setDSPBufferSize", <<"2048", "2">>, 0, "")>> \o
    setSampleRateSteps(s) \o
    <<Call("gSystem", "initialize", <<"1024", "STUDIO_INIT_NORMAL", "INIT_NORMAL">>, 0, ""),
      Timer("updateApplication", 20)>> \o
    initApplicationSteps(s, base, prog) \o
    resumeAudioSetupSteps(s, ios) \o
    <<Return(FMOD_OK)>>

mainSteps(s, base, prog, ios) ==
    <<Call("FMOD", "Studio_System_Create", <<>>, 0, ""),
      Assign("gSystem", TRUE),
      Call("gSystem", "getCoreSystem", <<>>, 0, ""),
      Assign("gSystemCore", TRUE),
      Call("gSystemCore", "setDSPBufferSize", <<"2048", "2">>, 0, "")>> \o
    setSampleRateSteps(s) \o
    <<Call("gSystem", "initialize", <<"1024", "STUDIO_INIT_NORMAL", "INIT_NORMAL">>, 0, "")>> \o
    initApplicationSteps(s, base, prog) \o
    resumeAudioSetupSteps(s, ios) \o
    <<Timer("updateApplication", 20), Return(FMOD_OK)>>

-----------------------------------------------------------------------------
\* The UI-triggered handlers, the timer handler and the engine's callback.

playEventSteps_NoRelease(s, soundid, newId, loopId, cancelId) ==
    IF s = "simple_event" /\ soundid = 0
    THEN <<Call(ExplosionEvent, "createInstance", <<>>, newId, ""),
           Call("eventInstance.val", "start", <<>>, newId, "")>>
    ELSE IF s = "simple_event" /\ soundid = 3
    THEN <<Call("cancelInstance.val", "start", <<>>, cancelId, "")>>
    ELSE IF soundid = (IF s = "simple_event" THEN 1 ELSE 0)
    THEN <<Call("loopingAmbienceInstance.val", "start", <<>>, loopId, "")>>
    ELSE <<Call("loopingAmbienceInstance.val", "stop", <<"STUDIO_STOP_IMMEDIATE">>, loopId, "")>>

playEventSteps_Recreate(s, soundid, newId, loopId, cancelId) ==
    IF s = "simple_event" /\ soundid = 0
    THEN <<Call(ExplosionEvent, "createInstance", <<>>, newId, ""),
           Call("eventInstance.val", "start", <<>>, newId, ""),
           Call("eventInstance.val", "release", <<>>, newId, "")>>
    ELSE IF s = "simple_event" /\ soundid = 3
    THEN <<Call("cancelInstance.val", "start", <<>>, cancelId, "")>>
    ELSE IF soundid = (IF s = "simple_event" THEN 1 ELSE 0)
    THEN <<Call(AmbienceEvent(s), "createInstance", <<>>, newId, "loopingAmbienceInstance"),
           Call("loopingAmbienceInstance.val", "start", <<>>, newId, "")>>
    ELSE <<Call("loopingAmbienceInstance.val", "stop", <<"STUDIO_STOP_IMMEDIATE">>, loopId, "")>>

playEventSteps_StopFirst(s, soundid, newId, loopId, cancelId) ==
    IF s = "simple_event" /\ soundid = 0
    THEN <<Call(ExplosionEvent, "createInstance", <<>>, newId, ""),
           Call("eventInstance.val", "start", <<>>, newId, ""),
           Call("eventInstance.val", "release", <<>>, newId, "")>>
    ELSE IF s = "simple_event" /\ soundid = 3
    THEN <<Call("cancelInstance.val", "stop", <<"STUDIO_STOP_IMMEDIATE">>, cancelId, ""),
           Call("cancelInstance.val", "start", <<>>, cancelId, "")>>
    ELSE IF soundid = (IF s = "simple_event" THEN 1 ELSE 0)
    THEN <<Call("loopingAmbienceInstance.val", "start", <<>>, loopId, "")>>
    ELSE <<Call("loopingAmbienceInstance.val", "stop", <<"STUDIO_STOP_IMMEDIATE">>, loopId, "")>>

\* newId is the id the next created instance gets; loopId and cancelId are
\* the ids held in loopingAmbienceInstance.val and cancelInstance.val.
playEventSteps(s, soundid, newId, loopId, cancelId) ==
    IF s = "simple_event"
    THEN IF soundid = 0
         THEN <<Call(ExplosionEvent, "createInstance", <<>>, newId, ""),
                Call("eventInstance.val", "start", <<>>, newId, ""),
                Call("eventInstance.val", "release", <<>>, newId, "")>>
         ELSE IF soundid = 1
         THEN <<Call("loopingAmbienceInstance.val", "start", <<>>, loopId, "")>>
         ELSE IF soundid = 2
         THEN <<Call("loopingAmbienceInstance.val", "stop", <<"STUDIO_STOP_IMMEDIATE">>, loopId, "")>>
         ELSE IF soundid = 3
         THEN <<Call("cancelInstance.val", "start", <<>>, cancelId, "")>>
         ELSE <<>>
    ELSE IF soundid = 0
         THEN <<Call("loopingAmbienceInstance.val", "start", <<>>, loopId, "")>>
         ELSE IF soundid = 1
         THEN <<Call("loopingAmbienceInstance.val", "stop", <<"STUDIO_STOP_IMMEDIATE">>, loopId, "")>>
         ELSE <<>>

toggleProgressionSteps(prog, inst) ==
    <<Assign("gProgression", IF prog = 0 THEN 1 ELSE 0),
      Call("gEventInstance", "setParameterByID",
           <<"gProgressionID", IF prog = 0 THEN 1 ELSE 0, FALSE>>, inst, "")>>

resumeAudioSteps_NoGuard(resumed) ==
    <<Call("gSystemCore", "mixerSuspend", <<>>, 0, ""),
      Call("gSystemCore", "mixerResume", <<>>, 0, ""),
      Assign("gAudioResumed", TRUE)>>

resumeAudioSteps(resumed) ==
    IF ~resumed
    THEN <<Call("gSystemCore", "mixerSuspend", <<>>, 0, ""),
           Call("gSystemCore", "mixerResume", <<>>, 0, ""),
           Assign("gAudioResumed", TRUE)>>
    ELSE <<>>

updateApplicationSteps_UpdateTwice ==
    <<Call("gSystemCore", "getCPUUsage", <<>>, 0, ""),
      Call("gSystemCore", "getChannelsPlaying", <<>>, 0, ""),
      Dom("display_out"),
      Call("gSystem", "update", <<>>, 0, ""),
      Call("gSystemCore", "getDSPBufferSize", <<>>, 0, ""),
      Call("gSystemCore", "getSoftwareFormat", <<>>, 0, ""),
      Call("gSystemCore", "getDriverInfo", <<"0">>, 0, ""),
      Dom("display_out2"),
      Call("gSystem", "update", <<>>, 0, "")>>

updateApplicationSteps ==
    <<Call("gSystemCore", "getCPUUsage", <<>>, 0, ""),
      Call("gSystemCore", "getChannelsPlaying", <<>>, 0, ""),
      Dom("display_out"),
      Call("gSystemCore", "getDSPBufferSize", <<>>, 0, ""),
      Call("gSystemCore", "getSoftwareFormat", <<>>, 0, ""),
      Call("gSystemCore", "getDriverInfo", <<"0">>, 0, ""),
      Dom("display_out2"),
      Call("gSystem", "update", <<>>, 0, "")>>

markerCallbackSteps_WritesProgression(type) ==
    IF type = "STUDIO_EVENT_CALLBACK_TIMELINE_MARKER" THEN <<Return(FMOD_OK)>>
    ELSE IF type = "STUDIO_EVENT_CALLBACK_TIMELINE_BEAT"
    THEN <<Assign("gProgression", 1), Return(FMOD_OK)>>
    ELSE IF type = "STUDIO_EVENT_CALLBACK_SOUND_PLAYED"
            \/ type = "STUDIO_EVENT_CALLBACK_SOUND_STOPPED"
    THEN <<Call("sound", "getName", <<>>, 0, ""),
           Call("sound", "getLength", <<"TIMEUNIT_MS">>, 0, ""),
           Return(FMOD_OK)>>
    ELSE <<Return(FMOD_OK)>>

markerCallbackSteps(type) ==
    IF type = "STUDIO_EVENT_CALLBACK_TIMELINE_MARKER" THEN <<Return(FMOD_OK)>>
    ELSE IF type = "STUDIO_EVENT_CALLBACK_TIMELINE_BEAT" THEN <<Return(FMOD_OK)>>
    ELSE IF type = "STUDIO_EVENT_CALLBACK_SOUND_PLAYED"
            \/ type = "STUDIO_EVENT_CALLBACK_SOUND_STOPPED"
    THEN <<Call("sound", "getName", <<>>, 0, ""),
           Call("sound", "getLength", <<"TIMEUNIT_MS">>, 0, ""),
           Return(FMOD_OK)>>
    ELSE <<Return(FMOD_OK)>>

-----------------------------------------------------------------------------
\* What a handler's events leave behind.

IsCall(e) == e.kind = "call"

Calls(trace) == SelectSeq(trace, IsCall)

Failed(trace) == \E i \in DOMAIN trace : trace[i].kind = "call" /\ trace[i].res # FMOD_OK

Threw(trace) == \E i \in DOMAIN trace : trace[i].kind = "throw"

\* The value a script variable has after the handler: assigned by a statement,
\* or written by the engine into the out-parameter of a call that succeeded.
AssignedVal(trace, v, old) ==
    IF \E i \in DOMAIN trace : trace[i].kind = "assign" /\ trace[i].var = v
    THEN trace[CHOOSE i \in DOMAIN trace : trace[i].kind = "assign" /\ trace[i].var = v].val
    ELSE old

OutHandle(trace, v, old) ==
    IF \E i \in DOMAIN trace : trace[i].kind = "call" /\ trace[i].out = v
                               /\ trace[i].res = FMOD_OK
    THEN trace[CHOOSE i \in DOMAIN trace : trace[i].kind = "call" /\ trace[i].out = v
                                            /\ trace[i].res = FMOD_OK].h
    ELSE old

OutSet(trace, v, old) ==
    old \/ \E i \in DOMAIN trace : trace[i].kind = "call" /\ trace[i].out = v
                                   /\ trace[i].res = FMOD_OK

Enabled(trace) == {trace[i].id : i \in {j \in DOMAIN trace : trace[j].kind = "enable"}}

\* The engine's side of the calls: an instance exists once createInstance
\* succeeded, plays from a successful start to a successful stop, and is
\* released by a successful release.  failedCall keeps the call on it that
\* returned an error, if any.
NewInstance(ev) ==
    [event |-> ev, started |-> FALSE, playing |-> FALSE, released |-> FALSE,
     failedCall |-> ""]

EngineCall(insts, e) ==
    IF e.fn = "createInstance"
    THEN IF e.res = FMOD_OK THEN Append(insts, NewInstance(e.obj)) ELSE insts
    ELSE IF e.h \notin DOMAIN insts THEN insts
    ELSE IF e.res # FMOD_OK THEN [insts EXCEPT ![e.h].failedCall = e.fn]
    ELSE IF e.fn = "start"
    THEN [insts EXCEPT ![e.h].started = TRUE, ![e.h].playing = TRUE]
    ELSE IF e.fn = "stop" THEN [insts EXCEPT ![e.h].playing = FALSE]
    ELSE IF e.fn = "release" THEN [insts EXCEPT ![e.h].released = TRUE]
    ELSE insts

RECURSIVE EngineCalls(_, _)
EngineCalls(insts, trace) ==
    IF trace = <<>> THEN insts
    ELSE EngineCalls(IF Head(trace).kind = "call" THEN EngineCall(insts, Head(trace))
                     ELSE insts,
                     Tail(trace))

Playing(insts) == {i \in DOMAIN insts : insts[i].playing}

RegisteredMask(trace, old) ==
    IF \E i \in DOMAIN trace : trace[i].kind = "call" /\ trace[i].fn = "setCallback"
                               /\ trace[i].res = FMOD_OK
    THEN trace[CHOOSE i \in DOMAIN trace : trace[i].kind = "call"
                  /\ trace[i].fn = "setCallback" /\ trace[i].res = FMOD_OK].args[2]
    ELSE old

LoadedBy(trace) ==
    {<<trace[i].args[1], trace[i].args[2]>> :
        i \in {j \in DOMAIN trace : trace[j].kind = "call" /\ trace[j].fn = "loadBankFile"
                                     /\ trace[j].res = FMOD_OK}}

ResetsIn(trace) ==
    IF /\ \E i \in DOMAIN trace : trace[i].kind = "call" /\ trace[i].fn = "mixerSuspend"
                                   /\ trace[i].res = FMOD_OK
       /\ \E i \in DOMAIN trace : trace[i].kind = "call" /\ trace[i].fn = "mixerResume"
                                   /\ trace[i].res = FMOD_OK
    THEN 1 ELSE 0

\* The bookkeeping every handler shares: name, events, and the script and
\* engine state its events produce.
Ran(name, arg, trace) ==
    /\ lastOp' = [name |-> name, arg |-> arg]
    /\ opTrace' = trace
    /\ prePlaying' = Playing(instances)
    /\ priorFailure' = (priorFailure \/ Failed(opTrace))
    /\ instances' = EngineCalls(instances, trace)
    /\ gSystem' = AssignedVal(trace, "gSystem", gSystem)
    /\ gSystemCore' = AssignedVal(trace, "gSystemCore", gSystemCore)
    /\ explosionDescription' = OutSet(trace, "explosionDescription", explosionDescription)
    /\ loopingAmbienceInstance' = OutHandle(trace, "loopingAmbienceInstance", loopingAmbienceInstance)
    /\ cancelInstance' = OutHandle(trace, "cancelInstance", cancelInstance)
    /\ gEventInstance' = AssignedVal(trace, "gEventInstance", gEventInstance)
    /\ gProgression' = AssignedVal(trace, "gProgression", gProgression)
    /\ gProgressionID' = AssignedVal(trace, "gProgressionID", gProgressionID)
    /\ gAudioResumed' = AssignedVal(trace, "gAudioResumed", gAudioResumed)
    /\ buttons' = buttons \cup Enabled(trace)
    /\ timerOn' = (timerOn \/ \E i \in DOMAIN trace : trace[i].kind = "timer")
    /\ listenerOn' = (listenerOn \/ \E i \in DOMAIN trace : trace[i].kind = "listen")
    /\ callbackMask' = RegisteredMask(trace, callbackMask)
    /\ loadedBanks' = loadedBanks \cup LoadedBy(trace)
    /\ mixerResets' = IF mixerResets + ResetsIn(trace) > MaxResets THEN MaxResets
                      ELSE mixerResets + ResetsIn(trace)
    /\ preloaded' = preloaded \cup
           {<<trace[i].folder, trace[i].name>> :
               i \in {j \in DOMAIN trace : trace[j].kind = "preload"}}

-----------------------------------------------------------------------------
\* The page.

Init ==
    /\ script \in Scripts
    /\ phase = "loaded"
    /\ preloaded = {}
    /\ gSystem = FALSE
    /\ gSystemCore = FALSE
    /\ explosionDescription = FALSE
    /\ loopingAmbienceInstance = 0
    /\ cancelInstance = 0
    /\ gEventInstance = 0
    /\ gProgression = 0
    /\ gProgressionID = FALSE
    /\ gAudioResumed = FALSE
    /\ buttons = {}
    /\ timerOn = FALSE
    /\ listenerOn = FALSE
    /\ instances = <<>>
    /\ callbackMask = {}
    /\ loadedBanks = {}
    /\ mixerResets = 0
    /\ lastOp = [name |-> "load", arg |-> 0]
    /\ opTrace = <<>>
    /\ prePlaying = {}
    /\ priorFailure = FALSE

\* FMOD['preRun']: called by the runtime before it runs main.
prerun ==
    /\ phase = "loaded"
    /\ phase' = "preRun"
    /\ Ran("prerun", 0, Exec(prerunSteps(script), <<>>, 0))
    /\ UNCHANGED script

\* FMOD['onRuntimeInitialized']: called once, after preRun.  iOS is what
\* /iPad|iPhone|iPod/.test(navigator.userAgent) && !window.MSStream gives.
main ==
    /\ phase = "preRun"
    /\ \E iOS \in (IF script = "part_000" THEN BOOLEAN ELSE {FALSE}) :
       LET steps == mainSteps(script, Len(instances), gProgression, iOS) IN
       \E rs \in ResultVectors(NumCalls(steps)) :
          LET trace == Exec(steps, rs, 0) IN
          /\ phase' = IF Threw(trace) THEN "aborted" ELSE "running"
          /\ Ran("main", 0, trace)
    /\ UNCHANGED script

\* A tick of the timer main started.
updateApplication ==
    /\ timerOn
    /\ \E rs \in ResultVectors(NumCalls(updateApplicationSteps)) :
          Ran("updateApplication", 0, Exec(updateApplicationSteps, rs, 0))
    /\ UNCHANGED <<script, phase>>

ButtonIds(s) ==
    CASE s = "simple_event"    -> 0..3
      [] s = "part_000"        -> 0..1
      [] s = "music_callbacks" -> {}

ButtonOf(soundid) ==
    CASE soundid = 0 -> "playEvent0"
      [] soundid = 1 -> "playEvent1"
      [] soundid = 2 -> "playEvent2"
      [] soundid = 3 -> "playEvent3"

\* A press of the enabled button playEvent<soundid>.
playEvent ==
    \E soundid \in ButtonIds(script) :
       /\ ButtonOf(soundid) \in buttons
       /\ (script = "simple_event" /\ soundid = 0) => Len(instances) < MaxInstances
       /\ LET steps == playEventSteps(script, soundid, Len(instances) + 1,
                                      loopingAmbienceInstance, cancelInstance) IN
          \E rs \in ResultVectors(NumCalls(steps)) :
             Ran("playEvent", soundid, Exec(steps, rs, 0))
       /\ UNCHANGED <<script, phase>>

\* A press of the enabled toggle button.
toggleProgression ==
    /\ script = "music_callbacks"
    /\ "toggleid" \in buttons
    /\ LET steps == toggleProgressionSteps(gProgression, gEventInstance) IN
       \E rs \in ResultVectors(NumCalls(steps)) :
          Ran("toggleProgression", 0, Exec(steps, rs, 0))
    /\ UNCHANGED <<script, phase>>

\* A click (touchend on iOS) once main registered the listener.
resumeAudio ==
    /\ listenerOn
    /\ LET steps == resumeAudioSteps(gAudioResumed) IN
       \E rs \in ResultVectors(NumCalls(steps)) :
          Ran("resumeAudio", 0, Exec(steps, rs, 0))
    /\ UNCHANGED <<script, phase>>

\* The engine delivers a callback of a registered type for the started event.
markerCallback ==
    /\ gEventInstance \in DOMAIN instances
    /\ instances[gEventInstance].started
    /\ \E type \in callbackMask :
          LET steps == markerCallbackSteps(type) IN
          \E rs \in ResultVectors(NumCalls(steps)) :
             Ran("markerCallback", type, Exec(steps, rs, 0))
    /\ UNCHANGED <<script, phase>>

Next ==
    \/ prerun
    \/ main
    \/ updateApplication
    \/ playEvent
    \/ toggleProgression
    \/ resumeAudio
    \/ markerCallback

Spec == Init /\ [][Next]_vars

\* A callback type markerCallback has no branch for.
OtherCallbackTypes == {"STUDIO_EVENT_CALLBACK_STOPPED"}

\* markerCallback applied to any callback type, registered or not, once the
\* callback has been handed to the engine.
markerCallbackAnyType ==
    /\ callbackMask # {}
    /\ \E type \in CallbackTypes \cup OtherCallbackTypes :
          LET steps == markerCallbackSteps(type) IN
          \E rs \in ResultVectors(NumCalls(steps)) :
             Ran("markerCallback", type, Exec(steps, rs, 0))
    /\ UNCHANGED <<script, phase>>

NextCallback ==
    \/ Next
    \/ markerCallbackAnyType

SpecCallback == Init /\ [][NextCallback]_vars

-----------------------------------------------------------------------------
\* Reading a handler's events.

CallIdx(trace) == {i \in DOMAIN trace : trace[i].kind = "call"}

FnIdx(trace, fn) == {i \in DOMAIN trace : trace[i].kind = "call" /\ trace[i].fn = fn}

IsPrefix(a, b) == Len(a) <= Len(b) /\ \A i \in DOMAIN a : a[i] = b[i]

RECURSIVE FnNames(_)
FnNames(cs) == IF cs = <<>> THEN <<>> ELSE <<Head(cs).fn>> \o FnNames(Tail(cs))

IsMilestone(e) ==
    \/ e.kind \in {"enter", "timer", "listen"}
    \/ e.kind = "call" /\ e.fn \in {"Studio_System_Create", "getCoreSystem",
                                     "setDSPBufferSize", "getDriverInfo",
                                     "setSoftwareFormat", "initialize"}

MilestoneName(e) ==
    IF e.kind = "timer" THEN "setInterval"
    ELSE IF e.kind = "listen" THEN "addEventListener"
    ELSE e.fn

RECURSIVE MilestoneNames(_)
MilestoneNames(ms) ==
    IF ms = <<>> THEN <<>> ELSE <<MilestoneName(Head(ms))>> \o MilestoneNames(Tail(ms))

Shape(trace) == MilestoneNames(SelectSeq(trace, IsMilestone))

NotListen(n) == n # "addEventListener"

\* The statistics queries of updateApplication.
StatQueries ==
    {"getCPUUsage", "getChannelsPlaying", "getDSPBufferSize", "getSoftwareFormat",
     "getDriverInfo"}

-----------------------------------------------------------------------------
\* C1: CHECK_RESULT on a result equal to FMOD.OK shows no alert and throws
\* nothing, so the handler goes on; on any other result it shows exactly one
\* alert whose text is built from FMOD.ErrorString(result) and throws that
\* same message, which ends the handler.
C1_CheckResult ==
    /\ \A i \in CallIdx(opTrace) :
          IF opTrace[i].res = FMOD_OK
          THEN i < Len(opTrace) => opTrace[i + 1].kind \notin {"alert", "throw"}
          ELSE /\ Len(opTrace) = i + 2
               /\ opTrace[i + 1].kind = "alert"
               /\ opTrace[i + 1].msg.pre = "Error!!! '"
               /\ opTrace[i + 1].msg.str = ErrorString(opTrace[i].res)
               /\ opTrace[i + 1].msg.post = "'"
               /\ opTrace[i + 2].kind = "throw"
               /\ opTrace[i + 2].msg = opTrace[i + 1].msg
    /\ \A i \in DOMAIN opTrace :
          opTrace[i].kind \in {"alert", "throw"} =>
             \E j \in CallIdx(opTrace) : j < i /\ i <= j + 2 /\ opTrace[j].res # FMOD_OK

C1_Witness ==
    /\ Len(opTrace) >= 4
    /\ opTrace[Len(opTrace)].kind = "throw"
    /\ \E i \in CallIdx(opTrace) : opTrace[i].res = FMOD_OK

\* C2: once a call of a handler returns a value other than FMOD.OK, the
\* handler makes no further engine call, no DOM update and no retry; a
\* failure in main or initApplication leaves the buttons disabled and the
\* timer unstarted, and a failed statistics query means no gSystem.update()
\* in that tick.
C2_FailureAbortsOperation ==
    /\ \A i \in CallIdx(opTrace) :
          opTrace[i].res # FMOD_OK =>
             \A j \in DOMAIN opTrace : j > i => opTrace[j].kind \in {"alert", "throw"}
    /\ (lastOp.name = "main" /\ Failed(opTrace)) =>
          /\ buttons = {}
          /\ ~timerOn
    /\ (lastOp.name = "updateApplication"
          /\ \E i \in CallIdx(opTrace) :
                 opTrace[i].fn \in StatQueries /\ opTrace[i].res # FMOD_OK)
          => FnIdx(opTrace, "update") = {}

C2_Witness ==
    /\ lastOp.name = "updateApplication"
    /\ Failed(opTrace)
    /\ FnIdx(opTrace, "getDSPBufferSize") # {}
    /\ FnIdx(opTrace, "update") = {}

\* C3 as stated: after a call has failed and CHECK_RESULT has thrown, the
\* page makes no further engine call, neither from a later tick of the
\* polling timer nor from a later UI-triggered action.
C3_NoCallAfterAnyFailure ==
    (priorFailure /\ lastOp.name \in {"updateApplication", "playEvent",
                                       "toggleProgression", "resumeAudio"})
        => Calls(opTrace) = <<>>

\* C3 amended: a failed call in main or initApplication halts the page: the
\* timer is never started, the buttons stay disabled and the click/touchend
\* listener is never registered, so no timer tick and no UI-triggered action
\* ever runs.  (A failure inside a tick or a UI action ends only that
\* invocation.)
C3_StartupFailureHalts ==
    phase = "aborted" =>
        /\ ~timerOn
        /\ buttons = {}
        /\ ~listenerOn
        /\ lastOp.name \notin {"updateApplication", "playEvent", "toggleProgression",
                               "resumeAudio"}

C3_Witness ==
    /\ phase = "aborted"
    /\ lastOp.name = "main"
    /\ \E i \in DOMAIN opTrace : opTrace[i].kind = "enter"
    /\ Failed(opTrace)

\* C4 as stated: in every script main performs, in order, Studio_System_Create,
\* getCoreSystem, setDSPBufferSize(2048, 2), getDriverInfo, setSoftwareFormat,
\* initialize, initApplication and then setInterval(updateApplication, 20).
C4_SameShapeInAllThree ==
    (lastOp.name = "main" /\ ~Failed(opTrace)) =>
        SelectSeq(Shape(opTrace), NotListen) =
            <<"Studio_System_Create", "getCoreSystem", "setDSPBufferSize", "getDriverInfo",
              "setSoftwareFormat", "initialize", "initApplication", "setInterval">>

MainShape(s) ==
    CASE s = "simple_event" ->
            <<"Studio_System_Create", "getCoreSystem", "setDSPBufferSize", "getDriverInfo",
              "setSoftwareFormat", "initialize", "initApplication", "setInterval">>
      [] s = "part_000" ->
            <<"Studio_System_Create", "getCoreSystem", "setDSPBufferSize", "getDriverInfo",
              "setSoftwareFormat", "initialize", "initApplication", "addEventListener",
              "setInterval">>
      [] s = "music_callbacks" ->
            <<"Studio_System_Create", "getCoreSystem", "setDSPBufferSize", "initialize",
              "initApplication", "setInterval">>

\* C4 amended: simple_event.js and part_000 perform Studio_System_Create,
\* getCoreSystem, setDSPBufferSize(2048, 2), getDriverInfo, setSoftwareFormat,
\* initialize, initApplication and only then setInterval(updateApplication, 20)
\* (part_000 registers the resumeAudio listener between initApplication and
\* setInterval); music_callbacks.js performs the same sequence without
\* getDriverInfo and setSoftwareFormat.  A main that fails performs a prefix
\* of its sequence, and no script makes a configuration call after initialize.
C4_InitShape ==
    /\ lastOp.name = "main" =>
          /\ IsPrefix(Shape(opTrace), MainShape(script))
          /\ ~Failed(opTrace) => Shape(opTrace) = MainShape(script)
          /\ \A i \in FnIdx(opTrace, "setDSPBufferSize") : opTrace[i].args = <<"2048", "2">>
          /\ \A i \in DOMAIN opTrace :
                opTrace[i].kind = "timer" =>
                   opTrace[i].fn = "updateApplication" /\ opTrace[i].ms = 20
          /\ \A i \in FnIdx(opTrace, "initialize") :
                \A j \in FnIdx(opTrace, "setDSPBufferSize") \cup FnIdx(opTrace, "setSoftwareFormat") :
                   j < i
    /\ lastOp.name # "main" =>
          FnIdx(opTrace, "setDSPBufferSize") \cup FnIdx(opTrace, "setSoftwareFormat") = {}

C4_Witness ==
    /\ script = "music_callbacks"
    /\ lastOp.name = "main"
    /\ ~Failed(opTrace)
    /\ timerOn

\* C5: prerun runs before main, and every bank initApplication loads (from
\* "/" + name) is a file prerun registered in folder "/".
C5_BanksPreloaded ==
    /\ lastOp.name = "main" => phase # "loaded" /\ phase # "preRun"
    /\ phase \in {"running", "aborted"} =>
          preloaded = {<<"/", fileName(script)[i]>> : i \in DOMAIN fileName(script)}
    /\ \A i \in FnIdx(opTrace, "loadBankFile") :
          /\ opTrace[i].args[1] = "/"
          /\ <<opTrace[i].args[1], opTrace[i].args[2]>> \in preloaded

C5_Witness ==
    /\ lastOp.name = "main"
    /\ Cardinality(FnIdx(opTrace, "loadBankFile")) = Len(fileName(script))
    /\ ~Failed(opTrace)

\* C6: a tick in which all five statistics queries return FMOD.OK calls
\* gSystem.update() exactly once, after the queries and after both display
\* fields are written; no tick calls it twice; no other handler calls it.
C6_OneUpdatePerTick ==
    /\ lastOp.name = "updateApplication" =>
          /\ Cardinality(FnIdx(opTrace, "update")) <= 1
          /\ (\A q \in StatQueries :
                 \E i \in FnIdx(opTrace, q) : opTrace[i].res = FMOD_OK) =>
                /\ Cardinality(FnIdx(opTrace, "update")) = 1
                /\ \A u \in FnIdx(opTrace, "update") :
                      /\ opTrace[u].obj = "gSystem"
                      /\ \A q \in StatQueries : \A i \in FnIdx(opTrace, q) : i < u
                      /\ \A d \in {"display_out", "display_out2"} :
                            \E i \in DOMAIN opTrace :
                               opTrace[i].kind = "dom" /\ opTrace[i].id = d /\ i < u
    /\ lastOp.name # "updateApplication" => FnIdx(opTrace, "update") = {}

C6_Witness ==
    /\ lastOp.name = "updateApplication"
    /\ \E u \in FnIdx(opTrace, "update") : opTrace[u].res = FMOD_OK

\* C7: the mask initApplication passes to gEventInstance.setCallback in
\* music_callbacks.js contains the timeline-marker, timeline-beat,
\* sound-played and sound-stopped callback types.
C7_MaskHasEveryType ==
    \A i \in FnIdx(opTrace, "setCallback") : CallbackTypes \subseteq opTrace[i].args[2]


Explosions == {i \in DOMAIN instances : instances[i].event = ExplosionEvent}

Ambiences == {i \in DOMAIN instances : instances[i].event = AmbienceEvent(script)}

Cancels == {i \in DOMAIN instances : instances[i].event = CancelEvent}

\* C8 as stated: every instance playEvent(0) creates is started and then
\* released within that call, so no created explosion instance is left
\* unreleased.
C8_NoExplosionLeftUnreleased ==
    \A i \in Explosions : instances[i].started /\ instances[i].released

\* C8 amended: playEvent(0) calls createInstance, start, release in that
\* order on the instance it creates, each only if the call before it returned
\* FMOD.OK, and the script makes no call on that instance after release or in
\* any later handler; a created explosion instance is left unreleased exactly
\* when its start() or its release() returned an error.
C8_OneShotReleased ==
    /\ (script = "simple_event" /\ lastOp = [name |-> "playEvent", arg |-> 0]) =>
          /\ IsPrefix(FnNames(Calls(opTrace)), <<"createInstance", "start", "release">>)
          /\ ~Failed(opTrace) =>
                FnNames(Calls(opTrace)) = <<"createInstance", "start", "release">>
          /\ \A i \in CallIdx(opTrace) :
                opTrace[i].h = IF opTrace[1].res = FMOD_OK THEN Len(instances)
                               ELSE Len(instances) + 1
          /\ \A i \in FnIdx(opTrace, "release") : \A j \in CallIdx(opTrace) : j <= i
    /\ ~(script = "simple_event" /\ lastOp = [name |-> "playEvent", arg |-> 0]) =>
          \A i \in CallIdx(opTrace) : opTrace[i].h \notin Explosions
    /\ \A i \in Explosions :
          /\ instances[i].released => instances[i].started
          /\ instances[i].released <=> instances[i].failedCall = ""
          /\ instances[i].failedCall \in {"", "start", "release"}
          /\ instances[i].failedCall = "start" <=> ~instances[i].started

C8_Witness ==
    /\ lastOp = [name |-> "playEvent", arg |-> 0]
    /\ \E i \in Explosions : instances[i].released
    /\ \E i \in Explosions : instances[i].failedCall = "start"

PlayStartId(s) == IF s = "simple_event" THEN 1 ELSE 0

PlayStopId(s) == IF s = "simple_event" THEN 2 ELSE 1

\* C9: exactly one looping-ambience instance is ever created (in
\* initApplication); the start action calls only start() on it, the stop
\* action calls only stop(FMOD.STUDIO_STOP_IMMEDIATE) on it, and no
\* playEvent call creates, replaces or releases it.
C9_SingleAmbienceInstance ==
    /\ Cardinality(Ambiences) <= 1
    /\ \A i \in Ambiences : ~instances[i].released
    /\ lastOp.name = "playEvent" =>
          /\ Ambiences = {loopingAmbienceInstance}
          /\ \A i \in CallIdx(opTrace) :
                /\ opTrace[i].out # "loopingAmbienceInstance"
                /\ opTrace[i].obj # AmbienceEvent(script)
                /\ opTrace[i].h = loopingAmbienceInstance =>
                      opTrace[i].fn \in {"start", "stop"}
          /\ lastOp.arg = PlayStartId(script) =>
                /\ Len(Calls(opTrace)) = 1
                /\ Calls(opTrace)[1].fn = "start"
                /\ Calls(opTrace)[1].h = loopingAmbienceInstance
          /\ lastOp.arg = PlayStopId(script) =>
                /\ Len(Calls(opTrace)) = 1
                /\ Calls(opTrace)[1].fn = "stop"
                /\ Calls(opTrace)[1].args = <<"STUDIO_STOP_IMMEDIATE">>
                /\ Calls(opTrace)[1].h = loopingAmbienceInstance

C9_Witness ==
    /\ lastOp.name = "playEvent"
    /\ lastOp.arg = PlayStopId(script)
    /\ loopingAmbienceInstance \in prePlaying
    /\ ~Failed(opTrace)
    /\ ~instances[loopingAmbienceInstance].playing

\* C10: every playEvent(3) of simple_event.js calls start() on the one cancel
\* instance created in initApplication, whether or not it is playing, without
\* calling stop() first, creating a second cancel instance or releasing it.
C10_CancelRestarted ==
    /\ Cardinality(Cancels) <= 1
    /\ \A i \in Cancels : ~instances[i].released
    /\ (script = "simple_event" /\ lastOp = [name |-> "playEvent", arg |-> 3]) =>
          /\ Cancels = {cancelInstance}
          /\ Len(Calls(opTrace)) = 1
          /\ Calls(opTrace)[1].fn = "start"
          /\ Calls(opTrace)[1].h = cancelInstance
          /\ Calls(opTrace)[1].res = FMOD_OK => instances[cancelInstance].playing

C10_Witness ==
    /\ script = "simple_event"
    /\ lastOp = [name |-> "playEvent", arg |-> 3]
    /\ cancelInstance \in prePlaying
    /\ ~Failed(opTrace)


AllButtons(s) ==
    CASE s = "simple_event"    -> {"playEvent0", "playEvent1", "playEvent2", "playEvent3"}
      [] s = "part_000"        -> {"playEvent0", "playEvent1"}
      [] s = "music_callbacks" -> {"toggleid"}

\* C11: whenever a play or toggle button is enabled, every loadBank call of
\* initApplication has returned FMOD.OK and every handle the button's action
\* uses has been obtained (explosionDescription, loopingAmbienceInstance and
\* cancelInstance in simple_event.js; loopingAmbienceInstance in part_000;
\* gEventInstance and gProgressionID in music_callbacks.js), so no
\* UI-triggered action runs against a handle that was never created.
C11_ButtonsOnlyAfterLoading ==
    /\ buttons # {} =>
          /\ buttons = AllButtons(script)
          /\ loadedBanks = {<<"/", n>> : n \in bankNames(script)}
          /\ script = "simple_event" =>
                /\ explosionDescription
                /\ loopingAmbienceInstance \in DOMAIN instances
                /\ instances[loopingAmbienceInstance].event = AmbienceEvent(script)
                /\ cancelInstance \in DOMAIN instances
                /\ instances[cancelInstance].event = CancelEvent
          /\ script = "part_000" =>
                /\ loopingAmbienceInstance \in DOMAIN instances
                /\ instances[loopingAmbienceInstance].event = AmbienceEvent(script)
          /\ script = "music_callbacks" =>
                /\ gEventInstance \in DOMAIN instances
                /\ instances[gEventInstance].event = MusicEvent
                /\ gProgressionID
    /\ lastOp.name \in {"playEvent", "toggleProgression"} =>
          \A i \in CallIdx(opTrace) :
             IF opTrace[i].fn = "createInstance"
             THEN opTrace[i].obj = ExplosionEvent /\ explosionDescription
             ELSE opTrace[i].h \in DOMAIN instances

C11_Witness ==
    /\ buttons # {}
    /\ lastOp.name \in {"playEvent", "toggleProgression"}
    /\ Calls(opTrace) # <<>>
    /\ ~Failed(opTrace)


C12_Inv ==
    /\ mixerResets <= 1
    /\ gAudioResumed <=> mixerResets = 1
    /\ lastOp.name = "resumeAudio" =>
          /\ IsPrefix(FnNames(Calls(opTrace)), <<"mixerSuspend", "mixerResume">>)
          /\ Failed(opTrace) => ~gAudioResumed
    /\ lastOp.name # "resumeAudio" =>
          FnIdx(opTrace, "mixerSuspend") \cup FnIdx(opTrace, "mixerResume") = {}

C12_Step ==
    /\ gAudioResumed => gAudioResumed'
    /\ lastOp'.name = "resumeAudio" =>
          IF gAudioResumed
          THEN Calls(opTrace') = <<>>
          ELSE /\ Calls(opTrace') # <<>>
               /\ Calls(opTrace')[1].fn = "mixerSuspend"
               /\ ~Failed(opTrace') => FnNames(Calls(opTrace')) = <<"mixerSuspend", "mixerResume">>
               /\ gAudioResumed' <=> ~Failed(opTrace')

\* C12: in part_000 resumeAudio calls mixerSuspend and then mixerResume only
\* while gAudioResumed is false; gAudioResumed becomes true only after both
\* returned FMOD.OK and never returns to false, so the pair completes
\* successfully at most once; if either call fails gAudioResumed stays false
\* and the next click/touch attempts the pair again.
C12_ResumeOnce == []C12_Inv /\ [][C12_Step]_vars

C12_Witness ==
    /\ mixerResets = 1
    /\ priorFailure
    /\ lastOp.name = "resumeAudio"
    /\ Calls(opTrace) = <<>>


C13_Inv ==
    lastOp.name = "markerCallback" =>
       /\ \A i \in DOMAIN opTrace : opTrace[i].kind # "assign"
       /\ ~Failed(opTrace) =>
             /\ opTrace[Len(opTrace)].kind = "return"
             /\ opTrace[Len(opTrace)].val = FMOD_OK
       /\ Failed(opTrace) =>
             /\ \A i \in DOMAIN opTrace : opTrace[i].kind # "return"
             /\ \A i \in CallIdx(opTrace) : opTrace[i].fn \in {"getName", "getLength"}
       /\ lastOp.arg \notin {"STUDIO_EVENT_CALLBACK_SOUND_PLAYED",
                             "STUDIO_EVENT_CALLBACK_SOUND_STOPPED"} =>
             /\ Len(opTrace) = 1
             /\ opTrace[1].kind = "return"

C13_Step ==
    lastOp'.name = "markerCallback" =>
       UNCHANGED <<gSystem, gSystemCore, gEventInstance, gProgression, gProgressionID,
                   gAudioResumed, explosionDescription, loopingAmbienceInstance,
                   cancelInstance, buttons, timerOn, listenerOn>>

\* C13: markerCallback writes no script state: for every callback type it
\* leaves gSystem, gSystemCore, gEventInstance, gProgression and
\* gProgressionID unchanged, so callbacks interleaved with timer ticks and
\* toggleProgression calls leave the script state as it would be without
\* them; and it returns FMOD.OK for every type, also one it has no branch
\* for, unless a sound query (getName, getLength) fails.
C13_CallbackWritesNothing == []C13_Inv /\ [][C13_Step]_vars

C13_Witness ==
    /\ lastOp.name = "markerCallback"
    /\ lastOp.arg \in OtherCallbackTypes
    /\ gProgression = 1
    /\ opTrace[Len(opTrace)].kind = "return"

====
